---- MODULE Spec2Model ----
(***************************************************************************)
(* The DTX transcoder modelToDTX of                                        *)
(* src/packages/viewer/src/viewer/scene/index.ts (lines 100-431) as a      *)
(* state machine: the size pre-pass, the allocation of the payload, and    *)
(* the fill pass over geometries/buckets, textures, texture sets and       *)
(* objects/meshes.  One action per loop iteration of the source.           *)
(*                                                                         *)
(* Conventions.                                                            *)
(*  - An optional field (a property that may be undefined) is a sequence   *)
(*    of length <= 1: None is undefined, Some(x) is the value x.           *)
(*  - A typed array is a function on 0..length-1, as in the source.        *)
(*    Stores convert the value the way the typed array's element type      *)
(*    does (ToUint8, ToUint32, ToInt32).                                   *)
(*  - positions, textureData, decodeMatrices and matrices hold data whose  *)
(*    values no statement here reads and whose size reaches 3 * 65537      *)
(*    elements: they are kept as their allocated length plus the list of   *)
(*    the set() calls made on them (offset, length, source).               *)
(*  - A material factor is a float in the source; here it is the integer   *)
(*    number of tenths (12 stands for 1.2), and value * 255 is computed    *)
(*    exactly.  For every tenth in -10..20 the IEEE product and the exact  *)
(*    product truncate to the same integer.                                *)
(*  - An origin coordinate is an integer; its string form is the JS        *)
(*    Number-to-String of that integer.                                    *)
(***************************************************************************)
EXTENDS Integers, Sequences, FiniteSets, TLC

(***************************************************************************)
(* Bounds of the inputs.                                                   *)
(***************************************************************************)
MaxBuckets == 2
MaxMeshes == 2
MaxTextureSets == 2

(***************************************************************************)
(* Program constants.                                                      *)
(***************************************************************************)
NUM_TEXTURE_ATTRIBUTES == 9
NUM_MATERIAL_ATTRIBUTES == 6
\* Values of the imported @xeokit/constants names.
LinearMipmapLinearFilter == 1008
ClampToEdgeWrapping == 1001

(***************************************************************************)
(* Optional values and JS conversions.                                     *)
(***************************************************************************)
None == <<>>
Some(x) == <<x>>
\* Truthiness of an object reference: `if (bucket.indices)`, `ts.colorTexture ? ..`
IsSome(o) == o # <<>>
Get(o) == o[1]

\* `x || d` on an optional number: undefined and 0 are both falsy.
OrElse(o, d) == IF IsSome(o) /\ Get(o) # 0 THEN Get(o) ELSE d

\* Truncation toward zero of num / den (den > 0).
TruncDiv(num, den) == IF num >= 0 THEN num \div den ELSE -((-num) \div den)

\* Element conversions of typed-array stores.  An optional argument models a
\* value that may be undefined or not a number at all (what a table gives for
\* a key it inherits, see Lookup): ToNumber of those is NaN, stored as 0.  A
\* number is Some(n), a sequence of length 1.
ToUint8(x) == x % 256
ToUint16(x) == x % 65536
\* TLC's integers are the 32-bit signed ones: ToInt32 is the identity on them,
\* and ToUint32 is the identity on those that are >= 0 (no other value is ever
\* stored into a Uint32Array here: the CASE has no other arm).
ToUint32(x) == CASE x >= 0 -> x
ToInt32(x) == x
OptToUint8(o) == IF Len(o) = 1 THEN ToUint8(Get(o)) ELSE 0
OptToUint32(o) == IF Len(o) = 1 THEN ToUint32(Get(o)) ELSE 0
OptToInt32(o) == IF Len(o) = 1 THEN ToInt32(Get(o)) ELSE 0

\* JS Number::toString of an integer.
DigitStr(d) ==
    CASE d = 0 -> "0" [] d = 1 -> "1" [] d = 2 -> "2" [] d = 3 -> "3"
      [] d = 4 -> "4" [] d = 5 -> "5" [] d = 6 -> "6" [] d = 7 -> "7"
      [] d = 8 -> "8" [] d = 9 -> "9"

RECURSIVE NatToStr(_)
NatToStr(n) == IF n < 10 THEN DigitStr(n) ELSE NatToStr(n \div 10) \o DigitStr(n % 10)

NumToStr(n) == IF n < 0 THEN "-" \o NatToStr(-n) ELSE NatToStr(n)

(***************************************************************************)
(* Typed arrays.                                                           *)
(***************************************************************************)
NewArray(n) == [k \in 0..(n - 1) |-> 0]
ArrLen(a) == Cardinality(DOMAIN a)

\* a[k] = v : an index outside the array is ignored (typed-array semantics).
Store(a, k, v) == IF k \in DOMAIN a THEN [a EXCEPT ![k] = v] ELSE a

\* a.set(src, offset) throws a RangeError when src does not fit.
SetFits(a, src, offset) == offset + Len(src) <= ArrLen(a)
SetAt(a, src, offset) ==
    [k \in DOMAIN a |->
        IF k >= offset /\ k < offset + Len(src) THEN src[k - offset + 1] ELSE a[k]]

\* Conversions of a whole source array.
Uint8s(s) == [k \in 1..Len(s) |-> ToUint8(s[k])]
Uint16s(s) == [k \in 1..Len(s) |-> ToUint16(s[k])]
Uint32s(s) == [k \in 1..Len(s) |-> ToUint32(s[k])]
OptInt32s(s) == [k \in 1..Len(s) |-> OptToInt32(s[k])]

\* The bulk arrays: allocated length and the set() calls made.
NewBulk(n) == [length |-> n, writes |-> <<>>]
BulkFits(a, srcLen, offset) == offset + srcLen <= a.length
BulkSet(a, src, srcLen, offset) ==
    [a EXCEPT !.writes = Append(@, [at |-> offset, len |-> srcLen, src |-> src])]

\* A JS list (eachGeometryId, eachMeshId, eachObjectId): list[k] = v with
\* k = list.length appends.
ListStore(l, k, v) == IF k = Len(l) THEN Append(l, v) ELSE [l EXCEPT ![k + 1] = v]

(***************************************************************************)
(* The scene graph (SceneModel): insertion-ordered maps are sequences,     *)
(* each entity carrying its own id, which is also its key.  A reference    *)
(* to another entity (mesh.geometry, mesh.textureSet, textureSet.*Texture) *)
(* is the id of the referenced object: the id is all the codec reads of it.*)
(***************************************************************************)
GeometryBucket(pos, idx, edge, col, uv) ==
    [positionsCompressed |-> pos, indices |-> idx, edgeIndices |-> edge,
     colorsCompressed |-> col, uvsCompressed |-> uv]

Geometry(id, prim, bs) ==
    [id |-> id, primitive |-> prim, positionsDecompressMatrix |-> id,
     geometryBuckets |-> bs]

Texture(id, bytes, attrs) ==
    [id |-> id, imageData |-> bytes, compressed |-> attrs.compressed,
     mediaType |-> attrs.mediaType, width |-> attrs.width, height |-> attrs.height,
     minFilter |-> attrs.minFilter, magFilter |-> attrs.magFilter,
     wrapS |-> attrs.wrapS, wrapT |-> attrs.wrapT, wrapR |-> attrs.wrapR]

TextureSet(id, slots) ==
    [id |-> id, colorTexture |-> slots[1], metallicRoughnessTexture |-> slots[2],
     emissiveTexture |-> slots[3], occlusionTexture |-> slots[4]]

Mesh(id, v) ==
    [id |-> id, geometry |-> v.geometry, matrix |-> id, origin |-> v.origin,
     textureSet |-> v.textureSet, color |-> v.color, opacity |-> v.opacity,
     metallic |-> v.metallic, roughness |-> v.roughness]

SceneObject(id, ms) == [id |-> id, meshes |-> ms]

SceneModel(gs, ts, tss, ms, os) ==
    [geometries |-> gs, textures |-> ts, textureSets |-> tss, meshes |-> ms,
     objects |-> os]

\* The five primitive kinds of @xeokit/constants, and one that is none of them.
PrimitiveKinds ==
    {"TrianglesPrimitive", "SolidPrimitive", "SurfacePrimitive", "LinesPrimitive",
     "PointsPrimitive"}
UnknownPrimitive == "UnknownPrimitive"

(***************************************************************************)
(* The inputs.  Sequences of up to n elements of S:                        *)
(***************************************************************************)
SeqsUpTo(S, n) == UNION {[1..k -> S] : k \in 0..n}

\* Lengths of positionsCompressed for 10, 256, 257, 65536 and 65537 vertices.
PosLens == {3 * 10, 3 * 256, 3 * 257, 3 * 65536, 3 * 65537}

\* A bucket of n / 3 vertices with indices and edge indices that reach its
\* last vertex.
IndexedBucket(n) ==
    GeometryBucket(Some(n), Some(<<0, 1, (n \div 3) - 1>>), Some(<<0, (n \div 3) - 1>>),
                   None, None)

PlainBucket == IndexedBucket(30)

BucketKinds ==
    {IndexedBucket(n) : n \in PosLens}
    \cup {GeometryBucket(Some(30), idx, edge, None, None) :
            idx \in {None, Some(<<0, 1, 9>>)}, edge \in {None, Some(<<0, 9>>)}}
    \cup {GeometryBucket(Some(30), None, None, Some(<<7, 8, 9>>), None),
          GeometryBucket(Some(30), None, None, None, Some(<<5, 6>>)),
          GeometryBucket(Some(30), Some(<<0, 1, 9>>), Some(<<0, 9>>),
                         Some(<<7, 8, 9>>), Some(<<5, 6>>)),
          GeometryBucket(None, None, None, None, None)}

\* A bucket list as one geometry, or split over two geometries before or after
\* its first bucket (so a geometry may have no bucket).
GeometryLists ==
    UNION {
        {<<Geometry("g1", "TrianglesPrimitive", bs)>>}
        \cup {<<Geometry("g1", "SolidPrimitive", SubSeq(bs, 1, k)),
                Geometry("g2", "TrianglesPrimitive", SubSeq(bs, k + 1, Len(bs)))>> :
                k \in {0, 1} \cap (0..Len(bs))}
        : bs \in SeqsUpTo(BucketKinds, MaxBuckets)}

PrimitiveLists ==
    {<<Geometry("g1", p, <<PlainBucket>>)>> : p \in PrimitiveKinds \cup {UnknownPrimitive}}
    \cup {<<Geometry("g1", p, <<PlainBucket>>), Geometry("g2", q, <<PlainBucket>>)>> :
            p, q \in PrimitiveKinds \cup {UnknownPrimitive}}

DefaultGeometries ==
    <<Geometry("g1", "TrianglesPrimitive", <<PlainBucket>>),
      Geometry("g2", "LinesPrimitive", <<PlainBucket>>)>>

\* Textures.
DefaultAttrs ==
    [compressed |-> FALSE, mediaType |-> None, width |-> 4, height |-> 2,
     minFilter |-> None, magFilter |-> None, wrapS |-> None, wrapT |-> None,
     wrapR |-> None]
GivenAttrs ==
    [compressed |-> TRUE, mediaType |-> Some(10001), width |-> 70000, height |-> 8,
     minFilter |-> Some(1003), magFilter |-> Some(1006), wrapS |-> Some(1000),
     wrapT |-> Some(1002), wrapR |-> Some(0)]

TextureId(k) == "t" \o NatToStr(k)
TextureShapes == {[bytes |-> b, attrs |-> a] : b \in {0, 2, 5}, a \in {DefaultAttrs, GivenAttrs}}
TextureLists ==
    {[k \in 1..Len(l) |-> Texture(TextureId(k), l[k].bytes, l[k].attrs)] :
        l \in SeqsUpTo(TextureShapes, 2)}
DefaultTextures == <<Texture("t1", 2, DefaultAttrs), Texture("t2", 5, GivenAttrs)>>

\* Texture sets: the four slots; "tX" is the id of a texture that is not in
\* the model.
TextureSetId(k) == "ts" \o NatToStr(k)
SlotKinds ==
    {<<None, None, None, None>>,
     <<Some("t1"), None, None, None>>, <<None, Some("t1"), None, None>>,
     <<None, None, Some("t1"), None>>, <<None, None, None, Some("t1")>>,
     <<Some("t1"), Some("t1"), Some("t1"), Some("t1")>>,
     <<Some("t2"), None, None, Some("t1")>>, <<Some("t1"), None, Some("t2"), Some("t2")>>,
     <<Some("tX"), None, None, None>>, <<Some("t2"), Some("tX"), None, None>>}
TextureSetLists ==
    {[k \in 1..Len(l) |-> TextureSet(TextureSetId(k), l[k])] :
        l \in SeqsUpTo(SlotKinds, MaxTextureSets)}
DefaultTextureSets ==
    <<TextureSet("ts1", <<Some("t1"), None, None, None>>),
      TextureSet("ts2", <<Some("t2"), Some("t1"), None, None>>)>>

\* Meshes.  Material factors are in tenths.
DefaultMesh ==
    [geometry |-> "g1", origin |-> <<1, 1, 1>>, textureSet |-> None,
     color |-> <<10, 5, 0>>, opacity |-> 10, metallic |-> 0, roughness |-> 10]

Origins == {<<1, 1, 1>>, <<11, 1, 1>>, <<1, 11, 1>>, <<-1, 1, 1>>, <<1, -1, 1>>, <<1, 1, -1>>}
MaterialValues == {-1, 0, 5, 10, 12, 1282}

\* Meshes that differ in their origin, and meshes that differ in their
\* references and material.
OriginMeshKinds == {[DefaultMesh EXCEPT !.origin = o] : o \in Origins}
MeshKinds ==
    {DefaultMesh}
    \cup {[DefaultMesh EXCEPT !.geometry = g] : g \in {"g2", "gX"}}
    \cup {[DefaultMesh EXCEPT !.textureSet = t] : t \in {Some("ts1"), Some("ts2"), Some("tsX")}}
    \cup {[DefaultMesh EXCEPT !.color = <<q, q, q>>, !.opacity = q, !.metallic = q,
                              !.roughness = q] : q \in MaterialValues}
    \cup {[DefaultMesh EXCEPT !.color = <<0, 5, 12>>, !.opacity = 12, !.metallic = -1,
                              !.roughness = 3]}

MeshId(k) == "m" \o NatToStr(k)
ObjectId(k) == "o" \o NatToStr(k)
MeshLists ==
    {[k \in 1..Len(l) |-> Mesh(MeshId(k), l[k])] :
        l \in SeqsUpTo(OriginMeshKinds, MaxMeshes) \cup SeqsUpTo(MeshKinds, MaxMeshes)}

\* n meshes with pairwise different origins.
PlainMeshes(n) ==
    [k \in 1..n |-> Mesh(MeshId(k), [DefaultMesh EXCEPT !.origin = <<k, 1, 1>>])]

\* One object per model holding all the meshes, in order.
OneObject(ms) == <<SceneObject("o1", ms)>>

\* Up to two objects whose mesh lists are any lists of up to two meshes over the
\* model's meshes and a mesh that is not in model.meshes: a mesh may be listed
\* twice, or not at all.
StrayMesh == Mesh("mX", DefaultMesh)
ObjectLists(ms) ==
    {[k \in 1..Len(l) |-> SceneObject(ObjectId(k), l[k])] :
        l \in SeqsUpTo(SeqsUpTo({ms[k] : k \in 1..Len(ms)} \cup {StrayMesh}, 2), 2)}

\* A model whose second geometry, second texture and second texture set have
\* this id, with a mesh and a texture set that reference them.
ReservedIdModel(id) ==
    LET ms == <<Mesh("m1", [DefaultMesh EXCEPT !.geometry = id, !.textureSet = Some(id)]),
                Mesh("m2", DefaultMesh)>>
    IN  SceneModel(<<Geometry("g1", "TrianglesPrimitive", <<PlainBucket>>),
                     Geometry(id, "LinesPrimitive", <<PlainBucket>>)>>,
                   <<Texture("t1", 2, DefaultAttrs), Texture(id, 5, GivenAttrs)>>,
                   <<TextureSet("ts1", <<Some(id), None, None, Some("t1")>>),
                     TextureSet(id, <<Some("t1"), None, None, None>>)>>,
                   ms, OneObject(ms))

\* Ids that are also names of properties of Object.prototype.
ReservedIdModels == {ReservedIdModel(id) : id \in {"__proto__", "constructor"}}

Models ==
    ReservedIdModels
    \cup
    {SceneModel(gs, DefaultTextures, DefaultTextureSets, PlainMeshes(1),
                OneObject(PlainMeshes(1))) : gs \in GeometryLists \cup PrimitiveLists}
    \cup {SceneModel(DefaultGeometries, DefaultTextures, DefaultTextureSets, ms,
                     OneObject(ms)) : ms \in MeshLists}
    \cup {SceneModel(DefaultGeometries, DefaultTextures, tss, PlainMeshes(1),
                     OneObject(PlainMeshes(1))) : tss \in TextureSetLists}
    \cup {SceneModel(DefaultGeometries, ts, <<>>, PlainMeshes(1),
                     OneObject(PlainMeshes(1))) : ts \in TextureLists}
    \cup UNION {{SceneModel(DefaultGeometries, DefaultTextures, DefaultTextureSets,
                            PlainMeshes(n), os) : os \in ObjectLists(PlainMeshes(n))} :
                n \in 1..MaxMeshes}

(***************************************************************************)
(* State.                                                                  *)
(***************************************************************************)
VARIABLES
    sceneModel,         \* params.sceneModel, the input scene graph
    pc,                 \* position in modelToDTX
    loop,               \* the loop variables
    len,                \* the len* counters of the size pre-pass
    dtxData,            \* the payload under construction
    count,              \* the write cursors of the fill pass
    geometryIndices,    \* geometry id -> index
    textureIndices,     \* texture id -> index
    textureSetIndices,  \* texture set id -> index
    originLookup,       \* origin hash -> index into origins
    thrown,             \* the exception that ended the call, "" if none
    results             \* what the earlier calls of modelToDTX gave, oldest first

vars ==
    <<sceneModel, pc, loop, len, dtxData, count, geometryIndices, textureIndices,
      textureSetIndices, originLookup, thrown, results>>

geometriesList == sceneModel.geometries
texturesList == sceneModel.textures
textureSetsList == sceneModel.textureSets
meshesList == sceneModel.meshes
objectsList == sceneModel.objects

numGeometries == Len(geometriesList)
numTextures == Len(texturesList)
numTextureSets == Len(textureSetsList)
numMeshes == Len(meshesList)
numObjects == Len(objectsList)

\* The id -> index tables are ordinary JS objects ({}) used as maps, so they
\* inherit the properties of Object.prototype.
EmptyTable == [k \in {} |-> 0]

InheritedKeys ==
    {"__proto__", "constructor", "hasOwnProperty", "isPrototypeOf",
     "propertyIsEnumerable", "toLocaleString", "toString", "valueOf",
     "__defineGetter__", "__defineSetter__", "__lookupGetter__", "__lookupSetter__"}

\* What table[key] gives for an inherited key the table does not hold itself:
\* Object.prototype or one of its functions, which is neither undefined nor a
\* number.
Inherited(key) == <<key, "Object.prototype">>

\* table[key] = v with v a number.  The key "__proto__" is the accessor of
\* Object.prototype: its setter ignores a number and the table gets no key.
Put(t, key, v) ==
    IF key = "__proto__"
    THEN t
    ELSE [k \in (DOMAIN t) \cup {key} |-> IF k = key THEN v ELSE t[k]]

\* table[key]: the table's own entry, else the inherited property, else
\* undefined.
Lookup(t, key) ==
    IF key \in DOMAIN t THEN Some(t[key])
    ELSE IF key \in InheritedKeys THEN Inherited(key)
    ELSE None

(***************************************************************************)
(* Size pre-pass.                                                          *)
(***************************************************************************)
InitLen(m) ==
    [lenBuckets |-> 0, lenPositions |-> 0, lenColors |-> 0, lenUVs |-> 0,
     lenIndices8Bit |-> 0, lenIndices16Bit |-> 0, lenIndices32Bit |-> 0,
     lenEdgeIndices8Bit |-> 0, lenEdgeIndices16Bit |-> 0, lenEdgeIndices32Bit |-> 0,
     lenMatrices |-> Len(m.meshes) * 16, lenTextures |-> 0, lenDecodeMatrices |-> 0]

\* numPositions = positionsCompressed.length / 3 is compared with 1 << 8 and
\* 1 << 16; the quotient is not truncated, so numPositions <= b exactly when
\* the length is <= 3 * b.
NumPositionsLE(lenPos, b) == lenPos <= 3 * b

\* The tier of the pre-pass: 0 counts into the 8-bit length, 1 into the 16-bit
\* one, 2 into the 32-bit one.
SizeTier(lenPos) ==
    IF NumPositionsLE(lenPos, 2 ^ 8) THEN 0
    ELSE IF NumPositionsLE(lenPos, 2 ^ 16) THEN 1 ELSE 2

SizeIndices(l, b, tier) ==
    IF ~IsSome(b.indices) THEN l
    ELSE CASE tier = 0 -> [l EXCEPT !.lenIndices8Bit = @ + Len(Get(b.indices))]
           [] tier = 1 -> [l EXCEPT !.lenIndices16Bit = @ + Len(Get(b.indices))]
           [] tier = 2 -> [l EXCEPT !.lenIndices32Bit = @ + Len(Get(b.indices))]

SizeEdgeIndices(l, b, tier) ==
    IF ~IsSome(b.edgeIndices) THEN l
    ELSE CASE tier = 0 -> [l EXCEPT !.lenEdgeIndices8Bit = @ + Len(Get(b.edgeIndices))]
           [] tier = 1 -> [l EXCEPT !.lenEdgeIndices16Bit = @ + Len(Get(b.edgeIndices))]
           [] tier = 2 -> [l EXCEPT !.lenEdgeIndices32Bit = @ + Len(Get(b.edgeIndices))]

SizeUVs(l, b) ==
    IF IsSome(b.uvsCompressed) THEN [l EXCEPT !.lenUVs = @ + Len(Get(b.uvsCompressed))]
    ELSE l

\* One iteration of the inner loop (lines 144-169).  lenColors is never added to.
SizeBucket(l, b) ==
    IF ~IsSome(b.positionsCompressed) THEN l
    ELSE LET lenPos == Get(b.positionsCompressed)
             tier == SizeTier(lenPos)
             l1 == [l EXCEPT !.lenPositions = @ + lenPos]
         IN  SizeUVs(SizeEdgeIndices(SizeIndices(l1, b, tier), b, tier), b)

RECURSIVE SizeBuckets(_, _, _)
SizeBuckets(l, bs, k) ==
    IF k > Len(bs) THEN l ELSE SizeBuckets(SizeBucket(l, bs[k]), bs, k + 1)

\* One iteration of the outer loop (lines 139-171).
SizeGeometry ==
    /\ pc = "sizeGeometries"
    /\ loop.geometryIndex < numGeometries
    /\ LET geometryBuckets == geometriesList[loop.geometryIndex + 1].geometryBuckets
       IN  len' = SizeBuckets([len EXCEPT !.lenBuckets = @ + Len(geometryBuckets)],
                              geometryBuckets, 1)
    /\ loop' = [loop EXCEPT !.geometryIndex = @ + 1]
    /\ UNCHANGED <<sceneModel, results, pc, dtxData, count, geometryIndices, textureIndices,
                   textureSetIndices, originLookup, thrown>>

SizeGeometriesDone ==
    /\ pc = "sizeGeometries"
    /\ ~(loop.geometryIndex < numGeometries)
    /\ pc' = "sizeTextures"
    /\ loop' = [loop EXCEPT !.textureIndex = 0]
    /\ UNCHANGED <<sceneModel, results, len, dtxData, count, geometryIndices, textureIndices,
                   textureSetIndices, originLookup, thrown>>

\* Lines 173-177.
SizeTexture ==
    /\ pc = "sizeTextures"
    /\ loop.textureIndex < numTextures
    /\ len' = [len EXCEPT !.lenTextures = @ + texturesList[loop.textureIndex + 1].imageData]
    /\ loop' = [loop EXCEPT !.textureIndex = @ + 1]
    /\ UNCHANGED <<sceneModel, results, pc, dtxData, count, geometryIndices, textureIndices,
                   textureSetIndices, originLookup, thrown>>

SizeTexturesDone ==
    /\ pc = "sizeTextures"
    /\ ~(loop.textureIndex < numTextures)
    /\ pc' = "allocate"
    /\ UNCHANGED <<sceneModel, results, loop, len, dtxData, count, geometryIndices, textureIndices,
                   textureSetIndices, originLookup, thrown>>

(***************************************************************************)
(* Allocation (lines 179-229).                                             *)
(***************************************************************************)
NewDTXData(l, nGeometries, nTextures, nTextureSets, nMeshes, nObjects) ==
    [textureData |-> NewBulk(l.lenTextures),
     eachTextureDataPortion |-> NewArray(nTextures),
     eachTextureAttributes |-> NewArray(nTextures * NUM_TEXTURE_ATTRIBUTES),
     positions |-> NewBulk(l.lenPositions),
     colors |-> NewArray(l.lenColors),
     uvs |-> NewArray(l.lenUVs),
     indices8Bit |-> NewArray(l.lenIndices8Bit),
     indices16Bit |-> NewArray(l.lenIndices16Bit),
     indices32Bit |-> NewArray(l.lenIndices32Bit),
     edgeIndices8Bit |-> NewArray(l.lenEdgeIndices8Bit),
     edgeIndices16Bit |-> NewArray(l.lenEdgeIndices16Bit),
     edgeIndices32Bit |-> NewArray(l.lenEdgeIndices32Bit),
     eachTextureSetTextures |-> NewArray(nTextureSets * 5),
     decodeMatrices |-> NewBulk(l.lenDecodeMatrices),
     eachBucketPositionsPortion |-> NewArray(l.lenBuckets),
     eachBucketColorsPortion |-> NewArray(l.lenBuckets),
     eachBucketUVsPortion |-> NewArray(l.lenBuckets),
     eachBucketIndicesPortion |-> NewArray(l.lenBuckets),
     eachBucketEdgeIndicesPortion |-> NewArray(l.lenBuckets),
     eachBucketIndicesBitness |-> NewArray(l.lenBuckets),
     eachGeometryPrimitiveType |-> NewArray(nGeometries),
     eachGeometryBucketPortion |-> NewArray(nGeometries),
     eachGeometryDecodeMatricesPortion |-> NewArray(nGeometries),
     matrices |-> NewBulk(nMeshes * 16),
     origins |-> NewArray(nMeshes * 16),
     eachMeshGeometriesPortion |-> NewArray(nMeshes),
     eachMeshMatricesPortion |-> NewArray(nMeshes),
     eachMeshOriginsPortion |-> NewArray(nMeshes),
     eachMeshTextureSet |-> NewArray(nMeshes),
     eachMeshMaterialAttributes |-> NewArray(nMeshes * NUM_MATERIAL_ATTRIBUTES),
     eachGeometryId |-> <<>>,
     eachMeshId |-> <<>>,
     eachObjectId |-> <<>>,
     eachObjectMeshesPortion |-> NewArray(nObjects)]

\* Nothing is allocated before line 181.
NoDTXData == NewDTXData(InitLen([meshes |-> <<>>]), 0, 0, 0, 0, 0)

InitCount ==
    [countBuckets |-> 0, countPositions |-> 0, countColors |-> 0, countUVs |-> 0,
     countIndices8Bit |-> 0, countIndices16Bit |-> 0, countIndices32Bit |-> 0,
     countEdgeIndices8Bit |-> 0, countEdgeIndices16Bit |-> 0,
     countEdgeIndices32Bit |-> 0, countDecodeMatrices |-> 0,
     portionIdx |-> 0, eachTextureSetTexturesIndex |-> 0,
     eachMeshMaterialAttributesIndex |-> 0, matricesIndex |-> 0, originsIndex |-> 0,
     countMeshes |-> 0]

InitLoop ==
    [geometryIndex |-> 0, i |-> 0, textureIndex |-> 0, textureSetIndex |-> 0,
     objectIndex |-> 0, meshIndex |-> 0]

Allocate ==
    /\ pc = "allocate"
    /\ len' = [len EXCEPT !.lenDecodeMatrices = numGeometries * 16]
    /\ dtxData' = NewDTXData(len', numGeometries, numTextures, numTextureSets, numMeshes,
                             numObjects)
    /\ count' = InitCount
    /\ loop' = [loop EXCEPT !.geometryIndex = 0]
    /\ pc' = "fillGeometries"
    /\ UNCHANGED <<sceneModel, results, geometryIndices, textureIndices, textureSetIndices,
                   originLookup, thrown>>

\* An exception leaves modelToDTX: nothing is returned, the locals are gone.
Throw(e) ==
    /\ pc' = "threw"
    /\ thrown' = e
    /\ UNCHANGED <<sceneModel, results, loop, len, dtxData, count, geometryIndices, textureIndices,
                   textureSetIndices, originLookup>>

(***************************************************************************)
(* Fill pass: geometries and buckets (lines 233-336).                      *)
(***************************************************************************)
\* The switch of lines 240-257 has no default: primitiveType stays undefined
\* for any other kind.
PrimitiveType(primitive) ==
    CASE primitive = "TrianglesPrimitive" -> Some(0)
      [] primitive = "SolidPrimitive" -> Some(1)
      [] primitive = "SurfacePrimitive" -> Some(2)
      [] primitive = "LinesPrimitive" -> Some(3)
      [] primitive = "PointsPrimitive" -> Some(4)
      [] OTHER -> None

\* Lines 237-263.
FillGeometryHead ==
    /\ pc = "fillGeometries"
    /\ loop.geometryIndex < numGeometries
    /\ LET geometryIndex == loop.geometryIndex
           geometry == geometriesList[geometryIndex + 1]
           primitiveType == PrimitiveType(geometry.primitive)
       IN  IF ~BulkFits(dtxData.decodeMatrices, 16, count.countDecodeMatrices)
           THEN Throw("RangeError")
           ELSE /\ dtxData' =
                     [dtxData EXCEPT
                        !.eachGeometryPrimitiveType =
                            Store(@, geometryIndex, OptToUint8(primitiveType)),
                        !.eachGeometryBucketPortion =
                            Store(@, geometryIndex, ToUint32(count.countBuckets)),
                        !.eachGeometryDecodeMatricesPortion =
                            Store(@, geometryIndex, ToUint32(count.countDecodeMatrices)),
                        !.decodeMatrices =
                            BulkSet(@, geometry.positionsDecompressMatrix, 16,
                                    count.countDecodeMatrices)]
                /\ count' = [count EXCEPT !.countDecodeMatrices = @ + 16]
                /\ loop' = [loop EXCEPT !.i = 0]
                /\ pc' = "fillBuckets"
                /\ UNCHANGED <<sceneModel, results, len, geometryIndices, textureIndices,
                               textureSetIndices, originLookup, thrown>>

\* Line 270 with < for <=: a bucket of exactly 256 or 65536 vertices moves up a tier.
IndicesBitnessStrict(lenBucketPositions) ==
    IF lenBucketPositions < 3 * 2 ^ 8 THEN 0
    ELSE IF lenBucketPositions < 3 * 2 ^ 16 THEN 1 ELSE 2

\* Line 270.
IndicesBitness(lenBucketPositions) ==
    IF NumPositionsLE(lenBucketPositions, 2 ^ 8) THEN 0
    ELSE IF NumPositionsLE(lenBucketPositions, 2 ^ 16) THEN 1 ELSE 2

\* The payload and the cursors, threaded through the statements of one
\* iteration.
St(d, c) == [d |-> d, c |-> c]

\* The set() calls of lines 283, 288 and 293 throw when the source does not fit.
IndicesFit(st, b, bitness) ==
    \/ ~IsSome(b.indices)
    \/ CASE bitness = 0 -> SetFits(st.d.indices8Bit, Get(b.indices), st.c.countIndices8Bit)
         [] bitness = 1 -> SetFits(st.d.indices16Bit, Get(b.indices), st.c.countIndices16Bit)
         [] bitness = 2 -> SetFits(st.d.indices32Bit, Get(b.indices), st.c.countIndices32Bit)

\* Lines 280-298.
FillIndices(st, b, bitness) ==
    IF ~IsSome(b.indices) THEN st
    ELSE LET src == Get(b.indices)
             k == st.c.countBuckets
         IN  CASE bitness = 0 ->
                   St([st.d EXCEPT
                         !.indices8Bit = SetAt(@, Uint8s(src), st.c.countIndices8Bit),
                         !.eachBucketIndicesPortion =
                             Store(@, k, ToUint32(st.c.countIndices8Bit))],
                      [st.c EXCEPT !.countIndices8Bit = @ + Len(src)])
               [] bitness = 1 ->
                   St([st.d EXCEPT
                         !.indices16Bit = SetAt(@, Uint16s(src), st.c.countIndices16Bit),
                         !.eachBucketIndicesPortion =
                             Store(@, k, ToUint32(st.c.countIndices16Bit))],
                      [st.c EXCEPT !.countIndices16Bit = @ + Len(src)])
               [] bitness = 2 ->
                   St([st.d EXCEPT
                         !.indices32Bit = SetAt(@, Uint32s(src), st.c.countIndices32Bit),
                         !.eachBucketIndicesPortion =
                             Store(@, k, ToUint32(st.c.countIndices32Bit))],
                      [st.c EXCEPT !.countIndices32Bit = @ + Len(src)])

EdgeIndicesFit(st, b, bitness) ==
    \/ ~IsSome(b.edgeIndices)
    \/ CASE bitness = 0 ->
              SetFits(st.d.edgeIndices8Bit, Get(b.edgeIndices), st.c.countEdgeIndices8Bit)
         [] bitness = 1 ->
              SetFits(st.d.edgeIndices16Bit, Get(b.edgeIndices), st.c.countEdgeIndices16Bit)
         [] bitness = 2 ->
              SetFits(st.d.edgeIndices32Bit, Get(b.edgeIndices), st.c.countEdgeIndices32Bit)

\* Lines 300-318.
FillEdgeIndices(st, b, bitness) ==
    IF ~IsSome(b.edgeIndices) THEN st
    ELSE LET src == Get(b.edgeIndices)
             k == st.c.countBuckets
         IN  CASE bitness = 0 ->
                   St([st.d EXCEPT
                         !.edgeIndices8Bit =
                             SetAt(@, Uint8s(src), st.c.countEdgeIndices8Bit),
                         !.eachBucketEdgeIndicesPortion =
                             Store(@, k, ToUint32(st.c.countEdgeIndices8Bit))],
                      [st.c EXCEPT !.countEdgeIndices8Bit = @ + Len(src)])
               [] bitness = 1 ->
                   St([st.d EXCEPT
                         !.edgeIndices16Bit =
                             SetAt(@, Uint16s(src), st.c.countEdgeIndices16Bit),
                         !.eachBucketEdgeIndicesPortion =
                             Store(@, k, ToUint32(st.c.countEdgeIndices16Bit))],
                      [st.c EXCEPT !.countEdgeIndices16Bit = @ + Len(src)])
               [] bitness = 2 ->
                   St([st.d EXCEPT
                         !.edgeIndices32Bit =
                             SetAt(@, Uint32s(src), st.c.countEdgeIndices32Bit),
                         !.eachBucketEdgeIndicesPortion =
                             Store(@, k, ToUint32(st.c.countEdgeIndices32Bit))],
                      [st.c EXCEPT !.countEdgeIndices32Bit = @ + Len(src)])

\* Lines 320-323.
ColorsFit(st, b) ==
    ~IsSome(b.colorsCompressed) \/ SetFits(st.d.colors, Get(b.colorsCompressed), st.c.countColors)

FillColors(st, b) ==
    IF ~IsSome(b.colorsCompressed) THEN st
    ELSE St([st.d EXCEPT
               !.colors = SetAt(@, Uint8s(Get(b.colorsCompressed)), st.c.countColors)],
            [st.c EXCEPT !.countColors = @ + Len(Get(b.colorsCompressed))])

\* Lines 325-328.  uvs is a Float32Array: the small integers of the inputs are
\* stored as they are.
UVsFit(st, b) ==
    ~IsSome(b.uvsCompressed) \/ SetFits(st.d.uvs, Get(b.uvsCompressed), st.c.countUVs)

FillUVs(st, b) ==
    IF ~IsSome(b.uvsCompressed) THEN st
    ELSE St([st.d EXCEPT !.uvs = SetAt(@, Get(b.uvsCompressed), st.c.countUVs)],
            [st.c EXCEPT !.countUVs = @ + Len(Get(b.uvsCompressed))])

\* Lines 272-278: the portions and bitness of the bucket, then its positions.
\* A variant of FillPositions that records the positions portion after the
\* cursor has advanced.
FillPositionsLate(st, lenBucketPositions, bitness) ==
    LET k == st.c.countBuckets
    IN  St([st.d EXCEPT
              !.eachBucketPositionsPortion =
                  Store(@, k, ToUint32(st.c.countPositions + lenBucketPositions)),
              !.eachBucketColorsPortion = Store(@, k, ToUint32(st.c.countColors)),
              !.eachBucketUVsPortion = Store(@, k, ToUint32(st.c.countUVs)),
              !.eachBucketIndicesBitness = Store(@, k, ToUint8(bitness)),
              !.positions = BulkSet(@, k, lenBucketPositions, st.c.countPositions)],
           [st.c EXCEPT !.countPositions = @ + lenBucketPositions])

FillPositions(st, lenBucketPositions, bitness) ==
    LET k == st.c.countBuckets
    IN  St([st.d EXCEPT
              !.eachBucketPositionsPortion = Store(@, k, ToUint32(st.c.countPositions)),
              !.eachBucketColorsPortion = Store(@, k, ToUint32(st.c.countColors)),
              !.eachBucketUVsPortion = Store(@, k, ToUint32(st.c.countUVs)),
              !.eachBucketIndicesBitness = Store(@, k, ToUint8(bitness)),
              !.positions = BulkSet(@, k, lenBucketPositions, st.c.countPositions)],
           [st.c EXCEPT !.countPositions = @ + lenBucketPositions])

\* One iteration of the bucket loop (lines 267-330).  Reading .length of an
\* absent positionsCompressed is a TypeError; a set() that does not fit is a
\* RangeError.
FillBucket ==
    /\ pc = "fillBuckets"
    /\ LET geometryBuckets == geometriesList[loop.geometryIndex + 1].geometryBuckets
       IN  /\ loop.i < Len(geometryBuckets)
           /\ LET geometryBucket == geometryBuckets[loop.i + 1]
              IN  IF ~IsSome(geometryBucket.positionsCompressed)
                  THEN Throw("TypeError")
                  ELSE LET lenBucketPositions == Get(geometryBucket.positionsCompressed)
                           bucketIndicesBitness == IndicesBitness(lenBucketPositions)
                           st0 == St(dtxData, count)
                           st1 == FillPositions(st0, lenBucketPositions, bucketIndicesBitness)
                           st2 == FillIndices(st1, geometryBucket, bucketIndicesBitness)
                           st3 == FillEdgeIndices(st2, geometryBucket, bucketIndicesBitness)
                           st4 == FillColors(st3, geometryBucket)
                           st5 == FillUVs(st4, geometryBucket)
                       IN  IF /\ BulkFits(dtxData.positions, lenBucketPositions,
                                          count.countPositions)
                              /\ IndicesFit(st1, geometryBucket, bucketIndicesBitness)
                              /\ EdgeIndicesFit(st2, geometryBucket, bucketIndicesBitness)
                              /\ ColorsFit(st3, geometryBucket)
                              /\ UVsFit(st4, geometryBucket)
                           THEN /\ dtxData' = st5.d
                                /\ count' = [st5.c EXCEPT !.countBuckets = @ + 1]
                                /\ loop' = [loop EXCEPT !.i = @ + 1]
                                /\ UNCHANGED <<sceneModel, results, pc, len, geometryIndices,
                                               textureIndices, textureSetIndices,
                                               originLookup, thrown>>
                           ELSE Throw("RangeError")

\* The end of the bucket loop and lines 333-335.
FillGeometryTail ==
    /\ pc = "fillBuckets"
    /\ LET geometryIndex == loop.geometryIndex
           geometry == geometriesList[geometryIndex + 1]
       IN  /\ ~(loop.i < Len(geometry.geometryBuckets))
           /\ geometryIndices' = Put(geometryIndices, geometry.id, geometryIndex)
           /\ dtxData' = [dtxData EXCEPT
                            !.eachGeometryId = ListStore(@, geometryIndex, geometry.id)]
           /\ loop' = [loop EXCEPT !.geometryIndex = @ + 1]
    /\ pc' = "fillGeometries"
    /\ UNCHANGED <<sceneModel, results, len, count, textureIndices, textureSetIndices,
                   originLookup, thrown>>

FillGeometriesDone ==
    /\ pc = "fillGeometries"
    /\ ~(loop.geometryIndex < numGeometries)
    /\ pc' = "fillTextures"
    /\ loop' = [loop EXCEPT !.textureIndex = 0]
    /\ count' = [count EXCEPT !.portionIdx = 0]
    /\ UNCHANGED <<sceneModel, results, len, dtxData, geometryIndices, textureIndices,
                   textureSetIndices, originLookup, thrown>>

(***************************************************************************)
(* Fill pass: textures (lines 340-362).                                    *)
(***************************************************************************)
TextureAttributes(texture) ==
    <<IF texture.compressed THEN 1 ELSE 0,
      OrElse(texture.mediaType, 0),
      texture.width,
      texture.height,
      OrElse(texture.minFilter, LinearMipmapLinearFilter),
      OrElse(texture.magFilter, LinearMipmapLinearFilter),
      OrElse(texture.wrapS, ClampToEdgeWrapping),
      OrElse(texture.wrapT, ClampToEdgeWrapping),
      OrElse(texture.wrapR, ClampToEdgeWrapping)>>

\* The nine stores of lines 351-359: none is a set(), so none throws.
RECURSIVE StoreEach(_, _, _, _)
StoreEach(a, at, values, k) ==
    IF k > Len(values) THEN a
    ELSE StoreEach(Store(a, at + k - 1, values[k]), at, values, k + 1)

FillTexture ==
    /\ pc = "fillTextures"
    /\ loop.textureIndex < numTextures
    /\ LET textureIndex == loop.textureIndex
           texture == texturesList[textureIndex + 1]
           imageData == texture.imageData
           textureAttrIdx == textureIndex * NUM_TEXTURE_ATTRIBUTES
       IN  IF ~BulkFits(dtxData.textureData, imageData, count.portionIdx)
           THEN Throw("RangeError")
           ELSE /\ dtxData' =
                     [dtxData EXCEPT
                        !.textureData = BulkSet(@, texture.id, imageData, count.portionIdx),
                        !.eachTextureDataPortion =
                            Store(@, textureIndex, ToUint32(count.portionIdx)),
                        !.eachTextureAttributes =
                            StoreEach(@, textureAttrIdx,
                                      Uint16s(TextureAttributes(texture)), 1)]
                /\ count' = [count EXCEPT !.portionIdx = @ + imageData]
                /\ textureIndices' = Put(textureIndices, texture.id, textureIndex)
                /\ loop' = [loop EXCEPT !.textureIndex = @ + 1]
                /\ UNCHANGED <<sceneModel, results, pc, len, geometryIndices, textureSetIndices,
                               originLookup, thrown>>

FillTexturesDone ==
    /\ pc = "fillTextures"
    /\ ~(loop.textureIndex < numTextures)
    /\ pc' = "fillTextureSets"
    /\ loop' = [loop EXCEPT !.textureSetIndex = 0]
    /\ count' = [count EXCEPT !.eachTextureSetTexturesIndex = 0]
    /\ UNCHANGED <<sceneModel, results, len, dtxData, geometryIndices, textureIndices,
                   textureSetIndices, originLookup, thrown>>

(***************************************************************************)
(* Fill pass: texture sets (lines 366-374).                                *)
(***************************************************************************)
\* `ref ? textureIndices[ref.id] : -1`: undefined when the id is not in the
\* table, the inherited property when the id names one.
TextureSlot(table, ref) == IF IsSome(ref) THEN Lookup(table, Get(ref)) ELSE Some(-1)

TextureSetSlots(textureSet) ==
    <<TextureSlot(textureIndices, textureSet.colorTexture),
      TextureSlot(textureIndices, textureSet.metallicRoughnessTexture),
      TextureSlot(textureIndices, textureSet.emissiveTexture),
      TextureSlot(textureIndices, textureSet.occlusionTexture)>>

FillTextureSet ==
    /\ pc = "fillTextureSets"
    /\ loop.textureSetIndex < numTextureSets
    /\ LET textureSetIndex == loop.textureSetIndex
           textureSet == textureSetsList[textureSetIndex + 1]
           slots == TextureSetSlots(textureSet)
       IN  /\ dtxData' =
                [dtxData EXCEPT
                   !.eachTextureSetTextures =
                       StoreEach(@, count.eachTextureSetTexturesIndex,
                                 OptInt32s(slots), 1)]
           /\ count' = [count EXCEPT !.eachTextureSetTexturesIndex = @ + Len(slots)]
           /\ textureSetIndices' = Put(textureSetIndices, textureSet.id, textureSetIndex)
    /\ loop' = [loop EXCEPT !.textureSetIndex = @ + 1]
    /\ UNCHANGED <<sceneModel, results, pc, len, geometryIndices, textureIndices, originLookup,
                   thrown>>

FillTextureSetsDone ==
    /\ pc = "fillTextureSets"
    /\ ~(loop.textureSetIndex < numTextureSets)
    /\ pc' = "fillObjects"
    /\ loop' = [loop EXCEPT !.objectIndex = 0]
    /\ count' = [count EXCEPT !.eachMeshMaterialAttributesIndex = 0, !.matricesIndex = 0,
                              !.originsIndex = 0, !.countMeshes = 0]
    /\ originLookup' = EmptyTable
    /\ UNCHANGED <<sceneModel, results, len, dtxData, geometryIndices, textureIndices,
                   textureSetIndices, thrown>>

(***************************************************************************)
(* Fill pass: objects and meshes (lines 378-428).                          *)
(***************************************************************************)
\* Lines 388-392.
FillObjectHead ==
    /\ pc = "fillObjects"
    /\ loop.objectIndex < numObjects
    /\ LET objectIndex == loop.objectIndex
           object == objectsList[objectIndex + 1]
       IN  dtxData' =
               [dtxData EXCEPT
                  !.eachObjectId = ListStore(@, objectIndex, object.id),
                  !.eachObjectMeshesPortion = Store(@, objectIndex, ToUint32(count.countMeshes))]
    /\ loop' = [loop EXCEPT !.meshIndex = 0]
    /\ pc' = "fillMeshes"
    /\ UNCHANGED <<sceneModel, results, len, count, geometryIndices, textureIndices,
                   textureSetIndices, originLookup, thrown>>

\* Line 406 without the separators: "11" "1" "1" and "1" "11" "1" give one key.
OriginHashUnseparated(origin) ==
    NumToStr(origin[1]) \o NumToStr(origin[2]) \o NumToStr(origin[3])

\* Line 406: the template string of the three coordinates.
OriginHash(origin) ==
    NumToStr(origin[1]) \o "-" \o NumToStr(origin[2]) \o "-" \o NumToStr(origin[3])

\* Lines 419-424: value * 255 stored into a Uint8Array, which truncates toward
\* zero and reduces modulo 256.  The value is in tenths: the factor is the
\* double nearest to tenths / 10 and the product is a double too.  For the
\* tenths of ProductFallsShort the exact product is a whole number and the
\* double product lies just below it in magnitude (128.2 * 255 is
\* 32690.999999999996), so the truncation gives one less; for every other
\* value from -300.0 to 300.0 the truncated double product is the truncated
\* exact product.  Values beyond that range are not modelled.
ProductFallsShort == {-2564, -1282, 1282, 2564}

MaterialAttribute(tenths) ==
    CASE tenths \in -3000..3000 ->
        LET exact == TruncDiv(tenths * 255, 10)
            short == IF tenths \in ProductFallsShort
                     THEN (IF tenths > 0 THEN 1 ELSE -1)
                     ELSE 0
        IN  ToUint8(exact - short)

MaterialAttributes(mesh) ==
    <<MaterialAttribute(mesh.color[1]), MaterialAttribute(mesh.color[2]),
      MaterialAttribute(mesh.color[3]), MaterialAttribute(mesh.opacity),
      MaterialAttribute(mesh.metallic), MaterialAttribute(mesh.roughness)>>

\* Line 417.
MeshTextureSet(table, ref) == IF IsSome(ref) THEN Lookup(table, Get(ref)) ELSE Some(-1)

\* Line 399.
MeshGeometry(table, ref) == Lookup(table, ref)

\* Lines 405-415: the origin of the mesh, looked up or appended.
FillOrigin(st, lookup, origin) ==
    LET originHash == OriginHash(origin)
        found == Lookup(lookup, originHash)
        originsIndex == st.c.originsIndex
    IN  IF found = None
        THEN [st |-> St([st.d EXCEPT !.origins = StoreEach(@, originsIndex, origin, 1)],
                        [st.c EXCEPT !.originsIndex = @ + 3]),
              lookup |-> Put(lookup, originHash, originsIndex),
              originLookupIndex |-> Some(originsIndex)]
        ELSE [st |-> st, lookup |-> lookup, originLookupIndex |-> found]

\* One iteration of the mesh loop (lines 396-426).
FillMesh ==
    /\ pc = "fillMeshes"
    /\ LET object == objectsList[loop.objectIndex + 1]
           numObjectMeshes == Len(object.meshes)
       IN  /\ loop.meshIndex < numObjectMeshes
           /\ LET mesh == object.meshes[loop.meshIndex + 1]
                  countMeshes == count.countMeshes
                  matricesIndex == count.matricesIndex
                  d1 == [dtxData EXCEPT
                           !.eachMeshId = ListStore(@, countMeshes, mesh.id),
                           !.eachMeshGeometriesPortion =
                               Store(@, countMeshes,
                                     OptToUint32(MeshGeometry(geometryIndices, mesh.geometry))),
                           !.eachMeshMatricesPortion =
                               Store(@, countMeshes, ToUint32(matricesIndex)),
                           !.matrices = BulkSet(@, mesh.matrix, 16, matricesIndex)]
                  c1 == [count EXCEPT !.matricesIndex = @ + 16]
                  o == FillOrigin(St(d1, c1), originLookup, mesh.origin)
                  d2 == [o.st.d EXCEPT
                           !.eachMeshOriginsPortion =
                               Store(@, countMeshes, OptToUint32(o.originLookupIndex)),
                           !.eachMeshTextureSet =
                               Store(@, countMeshes,
                                     OptToInt32(MeshTextureSet(textureSetIndices,
                                                               mesh.textureSet))),
                           !.eachMeshMaterialAttributes =
                               StoreEach(@, count.eachMeshMaterialAttributesIndex,
                                         MaterialAttributes(mesh), 1)]
                  c2 == [o.st.c EXCEPT
                           !.eachMeshMaterialAttributesIndex = @ + NUM_MATERIAL_ATTRIBUTES,
                           !.countMeshes = @ + 1]
              IN  IF ~BulkFits(dtxData.matrices, 16, matricesIndex)
                  THEN Throw("RangeError")
                  ELSE /\ dtxData' = d2
                       /\ count' = c2
                       /\ originLookup' = o.lookup
                       /\ loop' = [loop EXCEPT !.meshIndex = @ + 1]
                       /\ UNCHANGED <<sceneModel, results, pc, len, geometryIndices, textureIndices,
                                      textureSetIndices, thrown>>

\* A variant of FillObjectTail that empties the mesh list of the object it
\* has walked, as a loop that consumed the list would.
FillObjectTailConsuming ==
    /\ pc = "fillMeshes"
    /\ ~(loop.meshIndex < Len(objectsList[loop.objectIndex + 1].meshes))
    /\ loop' = [loop EXCEPT !.objectIndex = @ + 1]
    /\ pc' = "fillObjects"
    /\ sceneModel' = [sceneModel EXCEPT !.objects[loop.objectIndex + 1].meshes = <<>>]
    /\ UNCHANGED <<results, len, dtxData, count, geometryIndices, textureIndices,
                   textureSetIndices, originLookup, thrown>>

FillObjectTail ==
    /\ pc = "fillMeshes"
    /\ ~(loop.meshIndex < Len(objectsList[loop.objectIndex + 1].meshes))
    /\ loop' = [loop EXCEPT !.objectIndex = @ + 1]
    /\ pc' = "fillObjects"
    /\ UNCHANGED <<sceneModel, results, len, dtxData, count, geometryIndices, textureIndices,
                   textureSetIndices, originLookup, thrown>>

\* Line 430.
Return ==
    /\ pc = "fillObjects"
    /\ ~(loop.objectIndex < numObjects)
    /\ pc' = "returned"
    /\ UNCHANGED <<sceneModel, results, loop, len, dtxData, count, geometryIndices, textureIndices,
                   textureSetIndices, originLookup, thrown>>

(***************************************************************************)
(* The specification: one call of modelToDTX on each of the inputs.        *)
(***************************************************************************)
Init ==
    /\ sceneModel \in Models
    /\ pc = "sizeGeometries"
    /\ loop = InitLoop
    /\ len = InitLen(sceneModel)
    /\ dtxData = NoDTXData
    /\ count = InitCount
    /\ geometryIndices = EmptyTable
    /\ textureIndices = EmptyTable
    /\ textureSetIndices = EmptyTable
    /\ originLookup = EmptyTable
    /\ thrown = ""
    /\ results = <<>>

Next ==
    \/ SizeGeometry
    \/ SizeGeometriesDone
    \/ SizeTexture
    \/ SizeTexturesDone
    \/ Allocate
    \/ FillGeometryHead
    \/ FillBucket
    \/ FillGeometryTail
    \/ FillGeometriesDone
    \/ FillTexture
    \/ FillTexturesDone
    \/ FillTextureSet
    \/ FillTextureSetsDone
    \/ FillObjectHead
    \/ FillMesh
    \/ FillObjectTail
    \/ Return

Spec == Init /\ [][Next]_vars

(***************************************************************************)
(* Repeated calls.  modelToDTX is a function of the module: a caller may   *)
(* call it again, on the same scene graph or on another one.  Every local  *)
(* of the function, the id -> index tables (lines 134-137) and the lookup  *)
(* caches (lines 383-384) among them, is created by the call itself.       *)
(***************************************************************************)
MaxCalls == 3

\* Scene graphs for the repeated calls: a valid one whose two meshes share an
\* origin, one whose references dangle on ids that the first one defines, one
\* that throws in the fill pass, and a valid one with other origins.
SharedOriginModel ==
    LET ms == <<Mesh("m1", [DefaultMesh EXCEPT !.geometry = "g2",
                                                !.textureSet = Some("ts2")]),
                Mesh("m2", DefaultMesh)>>
    IN  SceneModel(DefaultGeometries, DefaultTextures, DefaultTextureSets, ms, OneObject(ms))

DanglingModel ==
    LET ms == <<Mesh("m1", [DefaultMesh EXCEPT !.geometry = "g2",
                                                !.textureSet = Some("ts2")])>>
    IN  SceneModel(<<Geometry("g1", "SolidPrimitive", <<PlainBucket>>)>>,
                   <<Texture("t1", 2, DefaultAttrs)>>,
                   <<TextureSet("ts1", <<Some("t2"), None, None, None>>)>>,
                   ms, OneObject(ms))

ThrowingModel ==
    SceneModel(<<Geometry("g1", "TrianglesPrimitive",
                          <<PlainBucket,
                            GeometryBucket(None, Some(<<0, 1, 2>>), Some(<<0, 1>>),
                                           None, None)>>)>>,
               DefaultTextures, DefaultTextureSets, PlainMeshes(1),
               OneObject(PlainMeshes(1)))

OtherOriginsModel ==
    SceneModel(DefaultGeometries, DefaultTextures, DefaultTextureSets, PlainMeshes(2),
               OneObject(PlainMeshes(2)))

CallModels == {SharedOriginModel, DanglingModel, ThrowingModel, OtherOriginsModel}

\* What the caller of a finished call has: the payload, or the exception.
Outcome ==
    [model |-> sceneModel, pc |-> pc, thrown |-> thrown,
     dtxData |-> IF pc = "returned" THEN dtxData ELSE NoDTXData]

\* A variant of Invoke in which the id -> index tables outlive the call, as
\* tables declared outside the function would.
InvokeKeepingTables(m) ==
    /\ pc \in {"returned", "threw"}
    /\ Len(results) < MaxCalls - 1
    /\ results' = Append(results, Outcome)
    /\ sceneModel' = m
    /\ pc' = "sizeGeometries"
    /\ loop' = InitLoop
    /\ len' = InitLen(m)
    /\ dtxData' = NoDTXData
    /\ count' = InitCount
    /\ originLookup' = EmptyTable
    /\ thrown' = ""
    /\ UNCHANGED <<geometryIndices, textureIndices, textureSetIndices>>

\* The caller, holding the outcome of a finished call, calls modelToDTX again
\* on scene graph m: the new call starts from its own fresh locals.
Invoke(m) ==
    /\ pc \in {"returned", "threw"}
    /\ Len(results) < MaxCalls - 1
    /\ results' = Append(results, Outcome)
    /\ sceneModel' = m
    /\ pc' = "sizeGeometries"
    /\ loop' = InitLoop
    /\ len' = InitLen(m)
    /\ dtxData' = NoDTXData
    /\ count' = InitCount
    /\ geometryIndices' = EmptyTable
    /\ textureIndices' = EmptyTable
    /\ textureSetIndices' = EmptyTable
    /\ originLookup' = EmptyTable
    /\ thrown' = ""

InitCalls ==
    /\ sceneModel \in CallModels
    /\ pc = "sizeGeometries"
    /\ loop = InitLoop
    /\ len = InitLen(sceneModel)
    /\ dtxData = NoDTXData
    /\ count = InitCount
    /\ geometryIndices = EmptyTable
    /\ textureIndices = EmptyTable
    /\ textureSetIndices = EmptyTable
    /\ originLookup = EmptyTable
    /\ thrown = ""
    /\ results = <<>>

InvokeAgain == \E m \in CallModels : Invoke(m)

NextCalls == Next \/ InvokeAgain

SpecCalls == InitCalls /\ [][NextCalls]_vars

(***************************************************************************)
(* Vocabulary of the properties.                                           *)
(***************************************************************************)
Ids(list) == {list[k].id : k \in 1..Len(list)}

\* The dense index of the entity with this id: its rank in the list.
IndexOfId(list, id) == CHOOSE k \in 0..(Len(list) - 1) : list[k + 1].id = id

RECURSIVE ConcatBuckets(_, _)
ConcatBuckets(gs, k) ==
    IF k > Len(gs) THEN <<>> ELSE gs[k].geometryBuckets \o ConcatBuckets(gs, k + 1)

\* All buckets of the model, in geometry order: bucket number n is AllBuckets[n + 1].
AllBuckets == ConcatBuckets(sceneModel.geometries, 1)

RECURSIVE ConcatMeshes(_, _)
ConcatMeshes(os, k) ==
    IF k > Len(os) THEN <<>> ELSE os[k].meshes \o ConcatMeshes(os, k + 1)

\* The meshes in the order the fill pass emits them: mesh record n is
\* EmittedMeshes[n + 1].
EmittedMeshes == ConcatMeshes(sceneModel.objects, 1)

TextureRefs(ts) ==
    {ts.colorTexture, ts.metallicRoughnessTexture, ts.emissiveTexture, ts.occlusionTexture}
        \ {None}

DanglingReference(m) ==
    \/ \E k \in 1..Len(m.objects) : \E j \in 1..Len(m.objects[k].meshes) :
          LET mesh == m.objects[k].meshes[j]
          IN  \/ mesh.geometry \notin Ids(m.geometries)
              \/ IsSome(mesh.textureSet) /\ Get(mesh.textureSet) \notin Ids(m.textureSets)
    \/ \E k \in 1..Len(m.textureSets) :
          \E r \in TextureRefs(m.textureSets[k]) : Get(r) \notin Ids(m.textures)

UnrecognizedPrimitive(m) ==
    \E k \in 1..Len(m.geometries) : m.geometries[k].primitive \notin PrimitiveKinds

\* All references resolve, every mesh of the model is listed by exactly one
\* object (and objects list no other mesh), every bucket has positions, and
\* every primitive kind is one of the five.
ValidSceneGraph(m) ==
    /\ ~DanglingReference(m)
    /\ ~UnrecognizedPrimitive(m)
    /\ \A k \in 1..Len(m.geometries) : \A j \in 1..Len(m.geometries[k].geometryBuckets) :
          IsSome(m.geometries[k].geometryBuckets[j].positionsCompressed)
    /\ LET emitted == ConcatMeshes(m.objects, 1)
       IN  /\ Len(emitted) = Len(m.meshes)
           /\ \A k \in 1..Len(m.meshes) : \E j \in 1..Len(emitted) : emitted[j] = m.meshes[k]

\* a[from], ..., a[from + n - 1] as a sequence.
Slice(a, from, n) == [k \in 1..n |-> a[from + k - 1]]
HoldsAt(a, from, src) ==
    /\ from + Len(src) <= ArrLen(a)
    /\ Slice(a, from, Len(src)) = src

Allocated == pc \notin {"sizeGeometries", "sizeTextures", "allocate"}

(***************************************************************************)
(* C1.  Exact sizing: for every valid scene graph, when modelToDTX         *)
(* finishes, the final write cursor of every output array equals the       *)
(* length the array was allocated with.                                    *)
(* Stated as in the specification; the code violates it (origins is        *)
(* allocated numMeshes * 16, eachTextureSetTextures numTextureSets * 5,    *)
(* and colors 0).                                                          *)
(***************************************************************************)
CursorsMatchLengths ==
    /\ count.countPositions = dtxData.positions.length
    /\ count.countColors = ArrLen(dtxData.colors)
    /\ count.countUVs = ArrLen(dtxData.uvs)
    /\ count.countIndices8Bit = ArrLen(dtxData.indices8Bit)
    /\ count.countIndices16Bit = ArrLen(dtxData.indices16Bit)
    /\ count.countIndices32Bit = ArrLen(dtxData.indices32Bit)
    /\ count.countEdgeIndices8Bit = ArrLen(dtxData.edgeIndices8Bit)
    /\ count.countEdgeIndices16Bit = ArrLen(dtxData.edgeIndices16Bit)
    /\ count.countEdgeIndices32Bit = ArrLen(dtxData.edgeIndices32Bit)
    /\ count.portionIdx = dtxData.textureData.length
    /\ count.countDecodeMatrices = dtxData.decodeMatrices.length
    /\ count.matricesIndex = dtxData.matrices.length
    /\ count.originsIndex = ArrLen(dtxData.origins)
    /\ count.eachTextureSetTexturesIndex = ArrLen(dtxData.eachTextureSetTextures)
    /\ count.eachMeshMaterialAttributesIndex = ArrLen(dtxData.eachMeshMaterialAttributes)
    /\ \A a \in {dtxData.eachBucketPositionsPortion, dtxData.eachBucketColorsPortion,
                 dtxData.eachBucketUVsPortion, dtxData.eachBucketIndicesPortion,
                 dtxData.eachBucketEdgeIndicesPortion, dtxData.eachBucketIndicesBitness} :
          count.countBuckets = ArrLen(a)
    /\ \A a \in {dtxData.eachGeometryPrimitiveType, dtxData.eachGeometryBucketPortion,
                 dtxData.eachGeometryDecodeMatricesPortion} :
          loop.geometryIndex = ArrLen(a)
    /\ loop.textureIndex = ArrLen(dtxData.eachTextureDataPortion)
    /\ \A a \in {dtxData.eachMeshGeometriesPortion, dtxData.eachMeshMatricesPortion,
                 dtxData.eachMeshOriginsPortion, dtxData.eachMeshTextureSet} :
          count.countMeshes = ArrLen(a)
    /\ loop.objectIndex = ArrLen(dtxData.eachObjectMeshesPortion)

C1_ExactSizing ==
    ValidSceneGraph(sceneModel) /\ pc = "returned" => CursorsMatchLengths

(***************************************************************************)
(* C2.  Bit-width tiering: a bucket of v = positionsCompressed.length / 3  *)
(* vertices has its indices and its edge indices in the 8-bit arrays iff   *)
(* v <= 256, in the 16-bit arrays iff 256 < v <= 65536, in the 32-bit      *)
(* arrays otherwise; eachBucketIndicesBitness holds 0, 1 or 2 for that     *)
(* tier; and the size pre-pass adds the lengths to the length counter of   *)
(* the same tier.                                                          *)
(***************************************************************************)
\* The tier the specification gives a bucket whose positions array has this
\* length (v <= 256, v <= 65536, with v a third of it).
ClaimedTier(lenPos) ==
    IF lenPos <= 3 * 256 THEN 0 ELSE IF lenPos <= 3 * 65536 THEN 1 ELSE 2

OptLen(o) == IF IsSome(o) THEN Len(Get(o)) ELSE 0

\* The total length of the indices (edge = FALSE) or edge indices (edge = TRUE)
\* of the first n buckets that have positions and are of this tier.
RECURSIVE TierTotal(_, _, _, _)
TierTotal(bs, n, tier, edge) ==
    IF n = 0 THEN 0
    ELSE TierTotal(bs, n - 1, tier, edge)
         + (IF /\ IsSome(bs[n].positionsCompressed)
               /\ ClaimedTier(Get(bs[n].positionsCompressed)) = tier
            THEN OptLen(IF edge THEN bs[n].edgeIndices ELSE bs[n].indices)
            ELSE 0)

IndexArrayOfTier(tier) ==
    CASE tier = 0 -> dtxData.indices8Bit
      [] tier = 1 -> dtxData.indices16Bit
      [] tier = 2 -> dtxData.indices32Bit

EdgeIndexArrayOfTier(tier) ==
    CASE tier = 0 -> dtxData.edgeIndices8Bit
      [] tier = 1 -> dtxData.edgeIndices16Bit
      [] tier = 2 -> dtxData.edgeIndices32Bit

\* Bucket number n has been written by the fill pass.
BucketFilled(n) == Allocated /\ n < count.countBuckets

BucketInItsTier(n) ==
    LET b == AllBuckets[n + 1]
        tier == ClaimedTier(Get(b.positionsCompressed))
    IN  /\ dtxData.eachBucketIndicesBitness[n] = tier
        /\ IsSome(b.indices) =>
              HoldsAt(IndexArrayOfTier(tier), dtxData.eachBucketIndicesPortion[n],
                      Get(b.indices))
        /\ IsSome(b.edgeIndices) =>
              HoldsAt(EdgeIndexArrayOfTier(tier), dtxData.eachBucketEdgeIndicesPortion[n],
                      Get(b.edgeIndices))

C2_BitWidthTiering ==
    /\ \A n \in 0..(Len(AllBuckets) - 1) : BucketFilled(n) => BucketInItsTier(n)
    /\ Allocated =>
          /\ count.countIndices8Bit = TierTotal(AllBuckets, count.countBuckets, 0, FALSE)
          /\ count.countIndices16Bit = TierTotal(AllBuckets, count.countBuckets, 1, FALSE)
          /\ count.countIndices32Bit = TierTotal(AllBuckets, count.countBuckets, 2, FALSE)
          /\ count.countEdgeIndices8Bit = TierTotal(AllBuckets, count.countBuckets, 0, TRUE)
          /\ count.countEdgeIndices16Bit = TierTotal(AllBuckets, count.countBuckets, 1, TRUE)
          /\ count.countEdgeIndices32Bit = TierTotal(AllBuckets, count.countBuckets, 2, TRUE)
    /\ pc # "sizeGeometries" =>
          /\ len.lenIndices8Bit = TierTotal(AllBuckets, Len(AllBuckets), 0, FALSE)
          /\ len.lenIndices16Bit = TierTotal(AllBuckets, Len(AllBuckets), 1, FALSE)
          /\ len.lenIndices32Bit = TierTotal(AllBuckets, Len(AllBuckets), 2, FALSE)
          /\ len.lenEdgeIndices8Bit = TierTotal(AllBuckets, Len(AllBuckets), 0, TRUE)
          /\ len.lenEdgeIndices16Bit = TierTotal(AllBuckets, Len(AllBuckets), 1, TRUE)
          /\ len.lenEdgeIndices32Bit = TierTotal(AllBuckets, Len(AllBuckets), 2, TRUE)

\* A call has returned on a model whose two buckets sit on both sides of a
\* tier boundary (256 and 257 vertices, or 65536 and 65537), both with indices.
C2_Witness ==
    /\ pc = "returned"
    /\ Len(AllBuckets) = 2
    /\ count.countBuckets = 2
    /\ \E v \in {256, 65536} :
          /\ AllBuckets[1] = IndexedBucket(3 * v)
          /\ AllBuckets[2] = IndexedBucket(3 * (v + 1))
          /\ dtxData.eachBucketIndicesBitness[0] + 1 = dtxData.eachBucketIndicesBitness[1]

(***************************************************************************)
(* C3.  Origin deduplication: two emitted meshes have the same             *)
(* eachMeshOriginsPortion iff their origin triples are equal; each         *)
(* distinct origin is appended to origins once, at the first mesh that     *)
(* carries it; and the three values at a mesh's origin portion are its     *)
(* own origin.                                                             *)
(***************************************************************************)
\* Mesh record n has been written by the fill pass.
MeshFilled(n) == Allocated /\ n < count.countMeshes

OriginOfRecord(n) == EmittedMeshes[n + 1].origin

\* The origins carried by the mesh records before record n.
OriginsBefore(n) == {OriginOfRecord(j) : j \in 0..(n - 1)}

\* The first mesh record that carries the origin of record n.
FirstWithOrigin(n) ==
    CHOOSE j \in 0..n :
        /\ OriginOfRecord(j) = OriginOfRecord(n)
        /\ \A i \in 0..(j - 1) : OriginOfRecord(i) # OriginOfRecord(n)

C3_OriginDeduplication ==
    Allocated =>
        /\ \A j, k \in 0..(count.countMeshes - 1) :
              (dtxData.eachMeshOriginsPortion[j] = dtxData.eachMeshOriginsPortion[k])
                  <=> (OriginOfRecord(j) = OriginOfRecord(k))
        /\ \A k \in 0..(count.countMeshes - 1) :
              /\ HoldsAt(dtxData.origins, dtxData.eachMeshOriginsPortion[k], OriginOfRecord(k))
              /\ dtxData.eachMeshOriginsPortion[k]
                     = 3 * Cardinality(OriginsBefore(FirstWithOrigin(k)))
        /\ count.originsIndex = 3 * Cardinality(OriginsBefore(count.countMeshes))

\* A call has returned on a model with two meshes of one origin, which share
\* the single entry of origins.
C3_Witness ==
    /\ pc = "returned"
    /\ count.countMeshes = 2
    /\ EmittedMeshes[1].id # EmittedMeshes[2].id
    /\ OriginOfRecord(0) = OriginOfRecord(1)
    /\ dtxData.eachMeshOriginsPortion[0] = dtxData.eachMeshOriginsPortion[1]
    /\ count.originsIndex = 3

(***************************************************************************)
(* C4.  The origins array has length exactly 3 x (number of distinct       *)
(* origin triples among the model's meshes).                               *)
(* Stated as in the specification; the code allocates numMeshes * 16.      *)
(***************************************************************************)
C4_OriginsLength ==
    pc = "returned" =>
        ArrLen(dtxData.origins)
            = 3 * Cardinality({sceneModel.meshes[k].origin : k \in 1..Len(sceneModel.meshes)})

(***************************************************************************)
(* C5.  Per-vertex colors are sized and stored: colors is allocated with   *)
(* the sum of colorsCompressed.length over all buckets, and a model with   *)
(* a bucket that carries colorsCompressed transcodes successfully, the     *)
(* bucket's colors copied to colors at its eachBucketColorsPortion.        *)
(* Stated as in the specification; the code never adds to lenColors.       *)
(***************************************************************************)
RECURSIVE ColorsTotal(_, _)
ColorsTotal(bs, n) ==
    IF n = 0 THEN 0 ELSE ColorsTotal(bs, n - 1) + OptLen(bs[n].colorsCompressed)

C5_ColorsSizedAndStored ==
    ValidSceneGraph(sceneModel) =>
        /\ Allocated => ArrLen(dtxData.colors) = ColorsTotal(AllBuckets, Len(AllBuckets))
        /\ pc # "threw"
        /\ \A n \in 0..(Len(AllBuckets) - 1) :
              BucketFilled(n) /\ IsSome(AllBuckets[n + 1].colorsCompressed) =>
                  HoldsAt(dtxData.colors, dtxData.eachBucketColorsPortion[n],
                          Get(AllBuckets[n + 1].colorsCompressed))

(***************************************************************************)
(* C6.  Sentinel correctness: an absent texture slot of a texture set is   *)
(* -1 in eachTextureSetTextures and a mesh without texture set has -1 in   *)
(* eachMeshTextureSet; an assigned slot or mesh holds a value >= 0, the    *)
(* dense index of the entity it references, so 0 never stands for absent.  *)
(* Stated as in the specification; the tables are plain objects, the       *)
(* index of a texture or texture set whose id is "__proto__" is never      *)
(* stored in them, and a reference to it is written as 0.                  *)
(***************************************************************************)
SlotRefs(ts) ==
    <<ts.colorTexture, ts.metallicRoughnessTexture, ts.emissiveTexture, ts.occlusionTexture>>

SentinelCorrect(ref, list, value) ==
    /\ ~IsSome(ref) => value = -1
    /\ IsSome(ref) => value >= 0
    /\ IsSome(ref) /\ Get(ref) \in Ids(list) => value = IndexOfId(list, Get(ref))

C6_SentinelCorrectness ==
    /\ \A s \in 0..(loop.textureSetIndex - 1) : \A j \in 1..4 :
          SentinelCorrect(SlotRefs(sceneModel.textureSets[s + 1])[j], sceneModel.textures,
                          dtxData.eachTextureSetTextures[4 * s + j - 1])
    /\ \A n \in 0..(Len(EmittedMeshes) - 1) :
          MeshFilled(n) =>
              SentinelCorrect(EmittedMeshes[n + 1].textureSet, sceneModel.textureSets,
                              dtxData.eachMeshTextureSet[n])

(***************************************************************************)
(* C7.  Material quantization with clamping: each of the six material      *)
(* values of a mesh is stored as round(value * 255) clamped to [0, 255].   *)
(* Stated as in the specification; the code stores value * 255 into a      *)
(* Uint8Array, which truncates and wraps modulo 256.                       *)
(***************************************************************************)
\* round(tenths / 10 * 255), halves rounded up as Math.round does.
RoundTimes255(tenths) == (2 * tenths * 255 + 10) \div 20
Clamp255(x) == IF x < 0 THEN 0 ELSE IF x > 255 THEN 255 ELSE x

MaterialValuesOf(mesh) ==
    <<mesh.color[1], mesh.color[2], mesh.color[3], mesh.opacity, mesh.metallic,
      mesh.roughness>>

C7_MaterialClamped ==
    \A n \in 0..(Len(EmittedMeshes) - 1) :
        MeshFilled(n) =>
            \A j \in 1..6 :
                dtxData.eachMeshMaterialAttributes[6 * n + j - 1]
                    = Clamp255(RoundTimes255(MaterialValuesOf(EmittedMeshes[n + 1])[j]))

(***************************************************************************)
(* C8.  An unrecognized primitive kind fails fast: modelToDTX does not     *)
(* return a payload; for the five kinds the stored code is triangles 0,    *)
(* solid 1, surface 2, lines 3, points 4.                                  *)
(* Stated as in the specification; the switch of the code has no default   *)
(* and the undefined code is stored as 0.                                  *)
(***************************************************************************)
ClaimedPrimitiveCode(primitive) ==
    CASE primitive = "TrianglesPrimitive" -> 0
      [] primitive = "SolidPrimitive" -> 1
      [] primitive = "SurfacePrimitive" -> 2
      [] primitive = "LinesPrimitive" -> 3
      [] primitive = "PointsPrimitive" -> 4

\* Lines 258-260 have run for geometry g.
GeometryFilled(g) ==
    /\ Allocated
    /\ \/ g < loop.geometryIndex
       \/ g = loop.geometryIndex /\ pc = "fillBuckets"

C8_UnrecognizedPrimitiveFailsFast ==
    /\ UnrecognizedPrimitive(sceneModel) => pc # "returned"
    /\ \A g \in 0..(numGeometries - 1) :
          GeometryFilled(g) /\ sceneModel.geometries[g + 1].primitive \in PrimitiveKinds =>
              dtxData.eachGeometryPrimitiveType[g]
                  = ClaimedPrimitiveCode(sceneModel.geometries[g + 1].primitive)

(***************************************************************************)
(* C9.  Dangling references are fatal: if a mesh references a geometry or  *)
(* texture set, or a texture set a texture, whose id is not in the table,  *)
(* modelToDTX does not return a payload.                                   *)
(* Stated as in the specification; the code stores the undefined index     *)
(* as 0 and returns.                                                       *)
(***************************************************************************)
C9_DanglingReferenceFatal == DanglingReference(sceneModel) => pc # "returned"

(***************************************************************************)
(* C10.  Texture-set layout of one fixed width: eachTextureSetTextures     *)
(* has length numTextureSets x 4, texture set i occupies [4i, 4i+3], and   *)
(* no element is left unwritten.                                           *)
(* Stated as in the specification; the code allocates numTextureSets * 5   *)
(* and writes with stride 4.                                               *)
(***************************************************************************)
C10_TextureSetLayout ==
    pc = "returned" =>
        /\ ArrLen(dtxData.eachTextureSetTextures) = numTextureSets * 4
        /\ count.eachTextureSetTexturesIndex = ArrLen(dtxData.eachTextureSetTextures)
        /\ \A s \in 0..(numTextureSets - 1) :
              SlotRefs(sceneModel.textureSets[s + 1]) = <<Some("t1"), None, None, None>> =>
                  Slice(dtxData.eachTextureSetTextures, 4 * s, 4) = <<0, -1, -1, -1>>

(***************************************************************************)
(* C11.  Determinism across invocations: two calls of modelToDTX on the    *)
(* same scene graph give the same payload, element for element, or throw   *)
(* the same exception, whatever calls on this or on other scene graphs     *)
(* came before: the tables and caches are created by each call.            *)
(***************************************************************************)
Finished == pc \in {"returned", "threw"}

C11_DeterministicAcrossCalls ==
    Finished =>
        \A k \in 1..Len(results) :
            results[k].model = sceneModel => results[k] = Outcome

\* A third call has returned on the scene graph of the first call, after a
\* call on another scene graph; the payload holds the one shared origin of the
\* two meshes and the index of geometry "g2".
C11_Witness ==
    /\ pc = "returned"
    /\ Len(results) = 2
    /\ sceneModel = SharedOriginModel
    /\ results[1].model = sceneModel
    /\ results[1].pc = "returned"
    /\ results[2].model = OtherOriginsModel
    /\ count.originsIndex = 3
    /\ dtxData.eachMeshGeometriesPortion[0] = 1
    /\ dtxData = results[1].dtxData

(***************************************************************************)
(* C12.  The input is read-only: no step of the size pre-pass or of the    *)
(* fill pass changes the scene graph (geometries, buckets, textures,       *)
(* texture sets, meshes, objects and the five id mappings); a step changes *)
(* only the length counters, the payload, the cursors and the tables.      *)
(***************************************************************************)
C12_InputReadOnly == [][sceneModel' = sceneModel]_vars

\* A call has returned after both passes walked a scene graph that has
\* geometries with buckets, textures, texture sets, and objects with meshes.
C12_Witness ==
    /\ pc = "returned"
    /\ count.countBuckets >= 2
    /\ loop.textureIndex >= 2
    /\ loop.textureSetIndex >= 2
    /\ loop.objectIndex >= 2
    /\ count.countMeshes >= 2
    /\ len.lenPositions > 0

(***************************************************************************)
(* C13.  A bucket without positions contributes nothing and is harmless:   *)
(* on a model with a bucket whose positionsCompressed is absent,           *)
(* modelToDTX completes, and the bucket adds nothing to positions, in the  *)
(* fill pass as in the size pre-pass.                                      *)
(* Stated as in the specification; the fill pass reads the length of the   *)
(* absent array (line 268) and throws.                                     *)
(***************************************************************************)
WithoutPositions(bs) == {n \in 1..Len(bs) : ~IsSome(bs[n].positionsCompressed)}
WithColors(bs) == {n \in 1..Len(bs) : IsSome(bs[n].colorsCompressed)}

RECURSIVE PositionsTotal(_, _)
PositionsTotal(bs, n) ==
    IF n = 0 THEN 0
    ELSE PositionsTotal(bs, n - 1)
         + (IF IsSome(bs[n].positionsCompressed) THEN Get(bs[n].positionsCompressed) ELSE 0)

C13_AbsentPositionsHarmless ==
    WithoutPositions(AllBuckets) # {} /\ WithColors(AllBuckets) = {} =>
        /\ pc # "threw"
        /\ pc # "sizeGeometries" =>
              len.lenPositions = PositionsTotal(AllBuckets, Len(AllBuckets))
        /\ Allocated => count.countPositions = PositionsTotal(AllBuckets, count.countBuckets)

(***************************************************************************)
(* C14.  Index portions mark the tier cursor for every bucket: for each    *)
(* bucket b, eachBucketIndicesPortion[b] (eachBucketEdgeIndicesPortion[b]) *)
(* is the total number of indices (edge indices) of the earlier buckets of *)
(* b's tier, also when b has no indices (no edge indices); so within one   *)
(* tier the portions are non-decreasing in bucket order.                   *)
(* Stated as in the specification; the code writes the portion only        *)
(* inside `if (geometryBucket.indices)` / `if (geometryBucket.edgeIndices)`*)
(* and a bucket without them keeps the 0 of the allocation.                *)
(***************************************************************************)
TierOfBucket(n) == ClaimedTier(Get(AllBuckets[n + 1].positionsCompressed))

C14_IndexPortionsMarkTierCursor ==
    /\ \A n \in 0..(Len(AllBuckets) - 1) :
          BucketFilled(n) =>
              /\ dtxData.eachBucketIndicesPortion[n]
                     = TierTotal(AllBuckets, n, TierOfBucket(n), FALSE)
              /\ dtxData.eachBucketEdgeIndicesPortion[n]
                     = TierTotal(AllBuckets, n, TierOfBucket(n), TRUE)
    /\ \A j, n \in 0..(Len(AllBuckets) - 1) :
          j < n /\ BucketFilled(n) /\ TierOfBucket(j) = TierOfBucket(n) =>
              /\ dtxData.eachBucketIndicesPortion[j] <= dtxData.eachBucketIndicesPortion[n]
              /\ dtxData.eachBucketEdgeIndicesPortion[j]
                     <= dtxData.eachBucketEdgeIndicesPortion[n]

(***************************************************************************)
(* C15.  Portion arrays are prefix sums: eachBucketPositionsPortion,       *)
(* eachBucketColorsPortion, eachBucketUVsPortion, eachTextureDataPortion,  *)
(* eachGeometryBucketPortion, eachGeometryDecodeMatricesPortion,           *)
(* eachMeshMatricesPortion and eachObjectMeshesPortion each start at 0,    *)
(* are non-decreasing, and element k is the sum of the contributions of    *)
(* the entities before k; eachGeometryDecodeMatricesPortion[g] = 16 g and  *)
(* eachMeshMatricesPortion[m] = 16 m.                                      *)
(***************************************************************************)
RECURSIVE UVsTotal(_, _)
UVsTotal(bs, n) ==
    IF n = 0 THEN 0 ELSE UVsTotal(bs, n - 1) + OptLen(bs[n].uvsCompressed)

RECURSIVE TextureBytesTotal(_, _)
TextureBytesTotal(ts, n) ==
    IF n = 0 THEN 0 ELSE TextureBytesTotal(ts, n - 1) + ts[n].imageData

RECURSIVE BucketsTotal(_, _)
BucketsTotal(gs, n) ==
    IF n = 0 THEN 0 ELSE BucketsTotal(gs, n - 1) + Len(gs[n].geometryBuckets)

RECURSIVE MeshesTotal(_, _)
MeshesTotal(os, n) ==
    IF n = 0 THEN 0 ELSE MeshesTotal(os, n - 1) + Len(os[n].meshes)

\* The texture loop has run for texture t (t is in the table of line 361);
\* line 392 has run for object o.
TextureFilled(t) == Allocated /\ sceneModel.textures[t + 1].id \in DOMAIN textureIndices
ObjectFilled(o) ==
    /\ Allocated
    /\ \/ o < loop.objectIndex
       \/ o = loop.objectIndex /\ pc = "fillMeshes"

\* The filled part of a portion array starts at 0 and does not decrease.
StartsAtZeroAndGrows(a, n) ==
    /\ n > 0 => a[0] = 0
    /\ \A j, k \in 0..(n - 1) : j <= k => a[j] <= a[k]

C15_PortionsArePrefixSums ==
    /\ \A n \in 0..(Len(AllBuckets) - 1) :
          BucketFilled(n) =>
              /\ dtxData.eachBucketPositionsPortion[n] = PositionsTotal(AllBuckets, n)
              /\ dtxData.eachBucketColorsPortion[n] = ColorsTotal(AllBuckets, n)
              /\ dtxData.eachBucketUVsPortion[n] = UVsTotal(AllBuckets, n)
    /\ \A t \in 0..(numTextures - 1) :
          TextureFilled(t) =>
              dtxData.eachTextureDataPortion[t] = TextureBytesTotal(sceneModel.textures, t)
    /\ \A g \in 0..(numGeometries - 1) :
          GeometryFilled(g) =>
              /\ dtxData.eachGeometryBucketPortion[g] = BucketsTotal(sceneModel.geometries, g)
              /\ dtxData.eachGeometryDecodeMatricesPortion[g] = 16 * g
    /\ \A m \in 0..(Len(EmittedMeshes) - 1) :
          MeshFilled(m) => dtxData.eachMeshMatricesPortion[m] = 16 * m
    /\ \A o \in 0..(numObjects - 1) :
          ObjectFilled(o) =>
              dtxData.eachObjectMeshesPortion[o] = MeshesTotal(sceneModel.objects, o)
    /\ pc = "returned" =>
          /\ \A a \in {dtxData.eachBucketPositionsPortion, dtxData.eachBucketColorsPortion,
                       dtxData.eachBucketUVsPortion} :
                StartsAtZeroAndGrows(a, count.countBuckets)
          /\ StartsAtZeroAndGrows(dtxData.eachTextureDataPortion, numTextures)
          /\ StartsAtZeroAndGrows(dtxData.eachGeometryBucketPortion, numGeometries)
          /\ StartsAtZeroAndGrows(dtxData.eachGeometryDecodeMatricesPortion, numGeometries)
          /\ StartsAtZeroAndGrows(dtxData.eachMeshMatricesPortion, count.countMeshes)
          /\ StartsAtZeroAndGrows(dtxData.eachObjectMeshesPortion, numObjects)

\* A call has returned on a model of two geometries with a bucket each, two
\* textures of 2 and 5 bytes, and two objects with a mesh each.
C15_Witness ==
    /\ pc = "returned"
    /\ count.countBuckets = 2
    /\ numGeometries = 2
    /\ numTextures = 2
    /\ numObjects = 2
    /\ count.countMeshes = 2
    /\ dtxData.eachBucketPositionsPortion[1] = 30
    /\ dtxData.eachTextureDataPortion[1] = 2
    /\ dtxData.eachGeometryBucketPortion[1] = 1
    /\ dtxData.eachGeometryDecodeMatricesPortion[1] = 16
    /\ dtxData.eachObjectMeshesPortion[1] = 1
    /\ dtxData.eachMeshMatricesPortion[1] = 16

(***************************************************************************)
(* C16.  Geometry indices are dense ranks and meshes resolve to them: the  *)
(* i-th geometry of the model gets index i, eachGeometryId[i] is its id,   *)
(* its primitive code, bucket portion and decode-matrix portion are at     *)
(* position i; and for every emitted mesh m,                               *)
(* eachGeometryId[eachMeshGeometriesPortion[m]] is the id of the geometry  *)
(* the mesh references.                                                    *)
(* Stated as in the specification; the ranks are dense, but a mesh whose   *)
(* geometry is not in the table gets index 0 (C9) and so the id of the     *)
(* first geometry, and a geometry whose id is "__proto__" never gets into  *)
(* the table.                                                              *)
(***************************************************************************)
\* list[k] of a JS list, "undefined" beyond its end.
ListAt(l, k) == IF k < Len(l) THEN l[k + 1] ELSE "undefined"

\* Lines 333-335 have run for geometry g.
GeometryIndexed(g) == Allocated /\ g < loop.geometryIndex

GeometryRanksDense ==
    \A g \in 0..(numGeometries - 1) :
        LET geometry == sceneModel.geometries[g + 1]
        IN  /\ GeometryFilled(g) =>
                  /\ geometry.primitive \in PrimitiveKinds =>
                        dtxData.eachGeometryPrimitiveType[g]
                            = ClaimedPrimitiveCode(geometry.primitive)
                  /\ dtxData.eachGeometryBucketPortion[g]
                         = BucketsTotal(sceneModel.geometries, g)
                  /\ dtxData.eachGeometryDecodeMatricesPortion[g] = 16 * g
            /\ GeometryIndexed(g) =>
                  /\ ListAt(dtxData.eachGeometryId, g) = geometry.id
                  /\ Lookup(geometryIndices, geometry.id) = Some(g)

MeshesResolve ==
    \A m \in 0..(Len(EmittedMeshes) - 1) :
        MeshFilled(m) =>
            ListAt(dtxData.eachGeometryId, dtxData.eachMeshGeometriesPortion[m])
                = EmittedMeshes[m + 1].geometry

C16_GeometryRanksAndResolution == GeometryRanksDense /\ MeshesResolve

(***************************************************************************)
(* C17.  Mesh records stay within the per-mesh arrays for any model:       *)
(* whatever the objects' mesh lists are (a mesh listed by two objects,     *)
(* twice by one object, or by no object), the fill pass emits numMeshes    *)
(* mesh records, every per-mesh write lands below the allocated length,    *)
(* and eachMeshId ends with exactly numMeshes entries.                     *)
(* Stated as in the specification; the code sizes the arrays from          *)
(* model.meshes and emits one record per entry of the objects' lists.      *)
(***************************************************************************)
\* Mesh record n lies within every per-mesh array.
MeshRecordWithinArrays(n) ==
    /\ \A a \in {dtxData.eachMeshGeometriesPortion, dtxData.eachMeshMatricesPortion,
                 dtxData.eachMeshOriginsPortion, dtxData.eachMeshTextureSet} :
          n < ArrLen(a)
    /\ 16 * n + 16 <= dtxData.matrices.length
    /\ NUM_MATERIAL_ATTRIBUTES * n + NUM_MATERIAL_ATTRIBUTES
           <= ArrLen(dtxData.eachMeshMaterialAttributes)

C17_MeshRecordsWithinArrays ==
    WithoutPositions(AllBuckets) = {} /\ WithColors(AllBuckets) = {} =>
        /\ pc # "threw"
        /\ \A n \in 0..(Len(EmittedMeshes) - 1) : MeshFilled(n) => MeshRecordWithinArrays(n)
        /\ pc = "returned" =>
              /\ count.countMeshes = numMeshes
              /\ Len(dtxData.eachMeshId) = numMeshes

====
